---- MODULE Spec2Model ----
(***************************************************************************)
(* State-machine model of cubeviz/layout.py (class CubeVizLayout): the     *)
(* bookkeeping of the active view / active cube, the image mode, the       *)
(* viewer combos, the smoothing preview, slice syncing and the synced      *)
(* pan/zoom limits of the split viewers.                                   *)
(*                                                                         *)
(* Python's cube_views[i] is cube_views[i + 1] here (sequences start at    *)
(* 1); view_index keeps the Python numbering 0..3.                         *)
(***************************************************************************)
EXTENDS Integers, Sequences, FiniteSets

\* ------------------------------------------------------------ constants

DEFAULT_NUM_SPLIT_VIEWERS == 3

\* Bounds of the model: slice indices are 0..MaxSlice, axis limits 0..MaxLimit.
MaxSlice == 1
MaxLimit == 1

Slices == 0..MaxSlice
Limits == 0..MaxLimit

\* The widgets __init__ creates, by identity.
ViewIds == <<"single", "split1", "split2", "split3">>
CubeIds == {ViewIds[i] : i \in 1..Len(ViewIds)}
SpecvizId == "specviz"
None == "None"

\* isinstance(view._widget, CubevizImageViewer)
WidgetClass(v) == IF v = SpecvizId THEN "SpecVizViewer" ELSE "CubevizImageViewer"

\* The entries of every viewer combo once data is loaded: the components of
\* the cube (3-D) and one 2-D component.  A component is named by its label.
ComboData == <<"FLUX", "ERROR", "DQ", "COLLAPSED">>
Components == {ComboData[i] : i \in 1..Len(ComboData)}
Missing == "MISSING"
Ndim(c) == IF c = "COLLAPSED" THEN 2 ELSE 3

\* default_index of the four SelectionCallbackProperty attributes.
DefaultIndex == <<0, 0, 1, 2>>

Attributes == <<"x_min", "x_max", "y_min", "y_max">>
AttributeSet == {Attributes[i] : i \in 1..Len(Attributes)}

ViewIndexes == 0..DEFAULT_NUM_SPLIT_VIEWERS

VARIABLES
    cube_views,           \* self.cube_views
    specviz,              \* self.specviz
    has_data,             \* self._has_data
    single_viewer_mode,   \* self._single_viewer_mode
    button_text,          \* ui.button_toggle_image_mode text
    frame_index,          \* ui.viewer_control_frame current index
    splitter,             \* which panes the splitters show: "split" or "single"
    active_view,          \* self._active_view
    active_cube,          \* self._active_cube
    last_active_view,     \* self._last_active_view
    active_split_cube,    \* self._active_split_cube
    slice_index,          \* viewer.slice_index, per cube viewer
    synced,               \* viewer.synced, per cube viewer
    has_2d_data,          \* viewer.has_2d_data, per cube viewer
    preview,              \* viewer.is_smoothing_preview_active, per cube viewer
    combo,                \* currentIndex of the combo of each view_index
    slider_index,         \* the slice controller's index
    slider_enabled,       \* the slice controller's enabled state
    has_original,         \* whether self._original_components exists
    original_components,  \* self._original_components
    sync,                 \* self.sync: the keep_in_sync bindings per attribute
    lim,                  \* viewer.state.<attribute>, per attribute and viewer
    last_click,           \* self._last_click
    returned,             \* what the last operation returned
    trace,                \* the viewer calls made by the last operation, in order
    toggled,              \* the state before each of the (at most two) latest
                          \* calls of _toggle_image_mode with no event between
    last                  \* the last operation and its arguments

vars == <<cube_views, specviz, has_data, single_viewer_mode, button_text,
          frame_index, splitter, active_view, active_cube, last_active_view,
          active_split_cube, slice_index, synced, has_2d_data, preview, combo,
          slider_index, slider_enabled, has_original, original_components,
          sync, lim, last_click, returned, trace, toggled, last>>

\* ------------------------------------------------- the layout as a value

\* The mutable fields of the layout and of its widgets, as one record, so
\* that a method is a function from the state before to the state after and
\* calls compose in the order the code makes them.
Cur ==
    [has_data |-> has_data, single_viewer_mode |-> single_viewer_mode,
     button_text |-> button_text, frame_index |-> frame_index,
     splitter |-> splitter, active_view |-> active_view,
     active_cube |-> active_cube, last_active_view |-> last_active_view,
     active_split_cube |-> active_split_cube, slice_index |-> slice_index,
     synced |-> synced, has_2d_data |-> has_2d_data, preview |-> preview,
     combo |-> combo, slider_index |-> slider_index,
     slider_enabled |-> slider_enabled, has_original |-> has_original,
     original_components |-> original_components, sync |-> sync, lim |-> lim,
     last_click |-> last_click, returned |-> None,
     trace |-> <<>>, toggled |-> <<>>]

Commit(s) ==
    /\ has_data' = s.has_data
    /\ single_viewer_mode' = s.single_viewer_mode
    /\ button_text' = s.button_text
    /\ frame_index' = s.frame_index
    /\ splitter' = s.splitter
    /\ active_view' = s.active_view
    /\ active_cube' = s.active_cube
    /\ last_active_view' = s.last_active_view
    /\ active_split_cube' = s.active_split_cube
    /\ slice_index' = s.slice_index
    /\ synced' = s.synced
    /\ has_2d_data' = s.has_2d_data
    /\ preview' = s.preview
    /\ combo' = s.combo
    /\ slider_index' = s.slider_index
    /\ slider_enabled' = s.slider_enabled
    /\ has_original' = s.has_original
    /\ original_components' = s.original_components
    /\ sync' = s.sync
    /\ lim' = s.lim
    /\ last_click' = s.last_click
    /\ returned' = s.returned
    /\ trace' = s.trace
    /\ toggled' = s.toggled
    /\ UNCHANGED <<cube_views, specviz>>

\* The last operation: its name, the viewer, view_index, component and force
\* it was called with (None, -1, None, FALSE where it has none).
Op(name, view, index, comp, force) ==
    [op |-> name, view |-> view, index |-> index, comp |-> comp, force |-> force]

Event(name, view) == [ev |-> name, view |-> view]

\* The global positions presses are made at and, for either arrangement of
\* the splitters, the viewer whose rect contains each (None: no viewer).  A
\* collapsed pane has an empty rect and contains no position.
Geometry ==
    [split  |-> [p1 |-> ViewIds[2], p2 |-> ViewIds[3], p3 |-> ViewIds[4],
                 p4 |-> SpecvizId,  p5 |-> SpecvizId,  p6 |-> None],
     single |-> [p1 |-> ViewIds[1], p2 |-> ViewIds[1], p3 |-> SpecvizId,
                 p4 |-> ViewIds[1], p5 |-> SpecvizId,  p6 |-> None]]

Positions == DOMAIN Geometry.split

EventTypes == {"MouseButtonPress", "MouseMove"}

QEvent(type, globalPos) == [type |-> type, globalPos |-> globalPos]

\* ------------------------------------------------------------- __init__

single_view == cube_views[1]
split_views == SubSeq(cube_views, 2, Len(cube_views))

\* subWindowList without the single viewer.
subWindowList_split == split_views \o <<specviz>>

subWindowList == cube_views \o <<specviz>>

activeSubWindow == active_view

EmptyDict == [i \in {} |-> None]

Init ==
    /\ cube_views = [i \in 1..(DEFAULT_NUM_SPLIT_VIEWERS + 1) |-> ViewIds[i]]
    /\ specviz = SpecvizId
    /\ has_data = FALSE
    /\ single_viewer_mode = FALSE
    /\ button_text = "Single Image Viewer"
    /\ frame_index = 0
    /\ splitter = "split"
    /\ active_view = None
    /\ active_cube = None
    /\ last_active_view = None
    /\ active_split_cube = None
    /\ slice_index = [v \in CubeIds |-> 0]
    /\ synced = [v \in CubeIds |-> TRUE]
    /\ has_2d_data = [v \in CubeIds |-> FALSE]
    /\ preview = [v \in CubeIds |-> FALSE]
    /\ combo = [i \in ViewIndexes |-> 0 - 1]
    /\ slider_index = 0
    /\ slider_enabled = FALSE
    /\ has_original = FALSE
    /\ original_components = EmptyDict
    /\ sync = EmptyDict
    /\ lim = [a \in AttributeSet |-> [v \in CubeIds |-> 0]]
    /\ last_click = None
    /\ returned = None
    /\ trace = <<>>
    /\ toggled = <<>>
    /\ last = Op("__init__", None, 0 - 1, None, FALSE)

\* ------------------------------------------- the widgets the layout drives

\* CubevizImageViewer.update_slice_index
update_slice_index(s, v, index) == [s EXCEPT !.slice_index[v] = index]

\* SliceController.update_index
update_index(s, index) == [s EXCEPT !.slider_index = index]

\* SliceController.set_enabled
set_enabled(s, value) == [s EXCEPT !.slider_enabled = value]

\* CubevizImageViewer.end_smoothing_preview
viewer_end_smoothing_preview(s, v) ==
    [s EXCEPT !.preview[v] = FALSE,
              !.trace = Append(@, Event("end_smoothing_preview", v))]

\* CubevizImageViewer.set_smoothing_preview
set_smoothing_preview(s, v) ==
    [s EXCEPT !.preview[v] = TRUE,
              !.trace = Append(@, Event("set_smoothing_preview", v))]

\* QComboBox.findData / findText: the index of the entry, -1 when there is none.
FindEntry(c) ==
    IF \E i \in 1..Len(ComboData) : ComboData[i] = c
    THEN (CHOOSE i \in 1..Len(ComboData) : ComboData[i] = c) - 1
    ELSE 0 - 1

\* QComboBox.currentData: None when nothing is selected.
CurrentData(s, view_index) ==
    IF s.combo[view_index] < 0 THEN None ELSE ComboData[s.combo[view_index] + 1]

\* ------------------------------------------------------ viewer combos

\* The closure _get_change_viewer_combo_func returns for view_index.  With
\* nothing selected combo.currentData() is None and component.parent raises
\* before anything is assigned.
on_viewer_combo_change(s, view_index) ==
    LET v == cube_views[view_index + 1]
        component == CurrentData(s, view_index)
        s0 == [s EXCEPT !.trace = Append(@, Event("combo_change", v))]
    IN  IF component = None
        THEN s0
        ELSE LET s1 == [s0 EXCEPT !.has_2d_data[v] = (Ndim(component) = 2)]
                 s2 == IF s1.preview[v]
                       THEN viewer_end_smoothing_preview(s1, v)
                       ELSE s1
             IN  IF v = s2.active_cube
                 THEN set_enabled(s2, ~s2.has_2d_data[v])
                 ELSE s2

\* QComboBox.setCurrentIndex: currentIndexChanged is emitted only when the
\* index changes.
setCurrentIndex(s, view_index, index) ==
    IF s.combo[view_index] = index
    THEN s
    ELSE on_viewer_combo_change([s EXCEPT !.combo[view_index] = index], view_index)

\* combo.currentIndexChanged.emit(index): the connected handler runs.
emit_currentIndexChanged(s, view_index) ==
    on_viewer_combo_change(
        [s EXCEPT !.trace = Append(@, Event("emit", cube_views[view_index + 1]))],
        view_index)

\* change_viewer_component ignoring force.
change_viewer_component_no_force(s, view_index, component_id, force) ==
    setCurrentIndex(s, view_index, FindEntry(component_id))

change_viewer_component(s, view_index, component_id, force) ==
    LET component_index == FindEntry(component_id)
    IN  IF s.combo[view_index] = component_index /\ force
        THEN emit_currentIndexChanged(s, view_index)
        ELSE setCurrentIndex(s, view_index, component_index)

display_component(s, component_id) ==
    IF s.single_viewer_mode
    THEN change_viewer_component(s, 0, component_id, FALSE)
    ELSE change_viewer_component(s, 1, component_id, FALSE)

\* dict[key] = value
DictSet(d, key, value) ==
    [k \in DOMAIN d \cup {key} |-> IF k = key THEN value ELSE d[k]]

\* The loop body of start_smoothing_preview with its last two calls swapped.
start_preview_step_swapped(s, view_index, component_id) ==
    LET s1 == [s EXCEPT !.original_components =
                            DictSet(@, view_index, CurrentData(s, view_index))]
        s2 == set_smoothing_preview(s1, cube_views[view_index + 1])
    IN  change_viewer_component(s2, view_index, component_id, TRUE)

\* One pass of the loop body of start_smoothing_preview.
start_preview_step(s, view_index, component_id) ==
    LET s1 == [s EXCEPT !.original_components =
                            DictSet(@, view_index, CurrentData(s, view_index))]
        s2 == change_viewer_component(s1, view_index, component_id, TRUE)
    IN  set_smoothing_preview(s2, cube_views[view_index + 1])

start_smoothing_preview(s, component_id) ==
    LET s0 == [s EXCEPT !.has_original = TRUE, !.original_components = EmptyDict]
        s1 == start_preview_step(s0, 0, component_id)
    IN  start_preview_step(s1, 1, component_id)

\* The loop body of end_smoothing_preview going to the first component.
end_preview_step_first(s, view_index) ==
    LET s1 == viewer_end_smoothing_preview(s, cube_views[view_index + 1])
    IN  IF view_index \in DOMAIN s1.original_components
        THEN change_viewer_component(s1, view_index, ComboData[1], TRUE)
        ELSE s1

\* One pass of the loop body of end_smoothing_preview.
end_preview_step(s, view_index) ==
    LET s1 == viewer_end_smoothing_preview(s, cube_views[view_index + 1])
    IN  IF view_index \in DOMAIN s1.original_components
        THEN change_viewer_component(s1, view_index,
                                     s1.original_components[view_index], TRUE)
        ELSE s1

\* Without a preview ever started self._original_components does not exist:
\* the first pass ends the single viewer's preview and then raises.
end_smoothing_preview(s) ==
    IF ~s.has_original
    THEN viewer_end_smoothing_preview(s, cube_views[1])
    ELSE LET s1 == end_preview_step(s, 0)
             s2 == end_preview_step(s1, 1)
         IN  [s2 EXCEPT !.original_components = EmptyDict]

\* ------------------------------------------------ active view and syncing

update_active_view(s, view) ==
    IF ~s.has_data
    THEN s
    ELSE LET s1 == [s EXCEPT !.active_view = view]
         IN  IF view \in CubeIds /\ WidgetClass(view) = "CubevizImageViewer"
             THEN LET s2 == [s1 EXCEPT !.active_cube = view]
                      index == s2.slice_index[view]
                  IN  IF s2.has_2d_data[view]
                      THEN set_enabled(s2, FALSE)
                      ELSE update_index(set_enabled(s2, TRUE), index)
             ELSE s1

\* _on_sync_click passing the index only to the viewers synced before.
on_sync_click_synced_only(s) ==
    LET index == s.slice_index[s.active_cube]
        s1 == [s EXCEPT !.synced = [v \in CubeIds |-> TRUE],
                        !.slice_index = [v \in CubeIds |->
                            IF v # s.active_cube /\ s.synced[v]
                            THEN index ELSE @[v]]]
    IN  update_index(s1, index)

on_sync_click(s) ==
    LET index == s.slice_index[s.active_cube]
        s1 == [s EXCEPT !.synced = [v \in CubeIds |-> TRUE],
                        !.slice_index = [v \in CubeIds |->
                            IF v # s.active_cube THEN index ELSE @[v]]]
    IN  update_index(s1, index)

\* _setup_syncing without the second binding.
setup_syncing_one_binding(s) ==
    LET s1 == [s EXCEPT !.sync = [a \in AttributeSet |->
                   << <<split_views[1], split_views[2]>> >>]]
    IN  on_sync_click(s1)

\* keep_in_sync(a, attribute, b, attribute) for split1/split2 and
\* split2/split3, for every attribute.
setup_syncing(s) ==
    LET s1 == [s EXCEPT !.sync = [a \in AttributeSet |->
                   << <<split_views[1], split_views[2]>>,
                      <<split_views[2], split_views[3]>> >>]]
    IN  on_sync_click(s1)

\* Setting a callback property: callbacks run only when the value changes.
\* A keep_in_sync binding copies the value to its other end unless it is
\* itself already syncing (busy).
RECURSIVE SetAttribute(_, _, _, _, _), RunBindings(_, _, _, _, _)
SetAttribute(values, bindings, v, value, busy) ==
    IF values[v] = value
    THEN values
    ELSE RunBindings([values EXCEPT ![v] = value], bindings, v, busy, 1)

RunBindings(values, bindings, v, busy, k) ==
    IF k > Len(bindings)
    THEN values
    ELSE LET b == bindings[k]
             other == IF b[1] = v THEN b[2] ELSE b[1]
             next == IF v \in {b[1], b[2]} /\ k \notin busy
                     THEN SetAttribute(values, bindings, other, values[v],
                                       busy \cup {k})
                     ELSE values
         IN  RunBindings(next, bindings, v, busy, k + 1)

\* viewer.state.<attribute> = value, by a pan or zoom of viewer v.
set_limit(s, v, attribute, value) ==
    LET bindings == IF attribute \in DOMAIN s.sync THEN s.sync[attribute] ELSE <<>>
    IN  [s EXCEPT !.lim[attribute] = SetAttribute(@, bindings, v, value, {})]

\* The combos are filled from the data; the selection of each is its
\* attribute's default_index.  The change handler is connected afterwards.
enable_all_viewer_combos(s) ==
    [s EXCEPT !.combo = [i \in ViewIndexes |-> DefaultIndex[i + 1]]]

add_data(s) ==
    LET s1 == [s EXCEPT !.has_data = TRUE,
                        !.active_view = split_views[1],
                        !.active_cube = split_views[1],
                        !.last_active_view = single_view,
                        !.active_split_cube = split_views[1]]
        s2 == set_enabled(s1, TRUE)
        s3 == setup_syncing(s2)
        s4 == enable_all_viewer_combos(s3)
    IN  update_active_view(s4, s4.active_view)

\* --------------------------------------------------------- image mode

activate_single_image_mode(s) == [s EXCEPT !.splitter = "single"]

activate_split_image_mode(s) == [s EXCEPT !.splitter = "split"]

RECURSIVE HandOver(_, _), HandOver_ignoring_single_view(_, _)

\* The loop handing the slice over whatever the single viewer's synced flag.
HandOver_ignoring_single_view(s, k) ==
    IF k > Len(split_views)
    THEN s
    ELSE LET view == split_views[k]
             s1 == IF s.synced[view]
                   THEN update_slice_index(s, view, s.slice_index[single_view])
                   ELSE s
         IN  HandOver_ignoring_single_view(s1, k + 1)

\* The loop over split_views in _toggle_image_mode, from position k on.
HandOver(s, k) ==
    IF k > Len(split_views)
    THEN s
    ELSE LET view == split_views[k]
             s1 == IF s.synced[single_view] /\ s.synced[view]
                   THEN update_slice_index(s, view, s.slice_index[single_view])
                   ELSE s
         IN  HandOver(s1, k + 1)

\* The single-to-split branch keeping the single viewer as the active cube.
enter_split_mode_keeping_active_cube(s) ==
    LET s2 == [activate_split_image_mode(s)
                 EXCEPT !.single_viewer_mode = FALSE,
                        !.button_text = "Single Image Viewer",
                        !.frame_index = 0]
    IN  HandOver(s2, 1)

\* The branch of _toggle_image_mode taken in single image mode.
enter_split_mode(s) ==
    LET s1 == [s EXCEPT !.active_cube = s.active_split_cube]
        s2 == [activate_split_image_mode(s1)
                 EXCEPT !.single_viewer_mode = FALSE,
                        !.button_text = "Single Image Viewer",
                        !.frame_index = 0]
    IN  HandOver(s2, 1)

\* The split-to-single branch leaving _single_viewer_mode as it was.
enter_single_mode_stale_flag(s) ==
    LET s1 == [s EXCEPT !.active_split_cube = s.active_cube,
                        !.active_view = single_view,
                        !.active_cube = single_view]
    IN  [activate_single_image_mode(s1)
           EXCEPT !.button_text = "Split Image Viewer",
                  !.frame_index = 1]

\* The branch of _toggle_image_mode taken in split image mode.
enter_single_mode(s) ==
    LET s1 == [s EXCEPT !.active_split_cube = s.active_cube,
                        !.active_view = single_view,
                        !.active_cube = single_view]
    IN  [activate_single_image_mode(s1)
           EXCEPT !.single_viewer_mode = TRUE,
                  !.button_text = "Split Image Viewer",
                  !.frame_index = 1]

\* _toggle_image_mode returning after the activation signal, the slice
\* controller left as the activation left it.
toggle_image_mode_without_index_update(s) ==
    LET new_active_view == s.last_active_view
        s0 == [s EXCEPT !.last_active_view = s.active_view]
        s1 == IF s0.single_viewer_mode
              THEN enter_split_mode(s0)
              ELSE enter_single_mode(s0)
    IN  update_active_view(s1, new_active_view)

\* The last statement reads self._active_cube._widget: with no active cube
\* it raises and the index is not updated.
toggle_image_mode(s) ==
    LET new_active_view == s.last_active_view
        s0 == [s EXCEPT !.last_active_view = s.active_view]
        s1 == IF s0.single_viewer_mode
              THEN enter_split_mode(s0)
              ELSE enter_single_mode(s0)
        s2 == update_active_view(s1, new_active_view)
    IN  IF s2.active_cube = None
        THEN s2
        ELSE update_index(s2, s2.slice_index[s2.active_cube])

showEvent(s) == update_active_view(activate_split_image_mode(s), split_views[1])

\* -------------------------------------------------------- eventFilter

\* viewer.rect().contains(viewer.mapFromGlobal(click_pos))
Contains(s, viewer, click_pos) == Geometry[s.splitter][click_pos] = viewer

\* subWindowActivated.emit(viewer): the connected _update_active_view runs.
emit_subWindowActivated(s, viewer) ==
    update_active_view(
        [s EXCEPT !.trace = Append(@, Event("subWindowActivated", viewer))],
        viewer)

\* The body run for a press while the layout is visible and active: the first
\* viewer of subWindowList containing the click ends the loop.
on_click(s, click_pos) ==
    IF click_pos # s.last_click
    THEN LET hits == {k \in 1..Len(subWindowList) :
                         Contains(s, subWindowList[k], click_pos)}
             first == CHOOSE k \in hits : \A j \in hits : k <= j
             s1 == IF hits # {} /\ subWindowList[first] # s.active_view
                   THEN emit_subWindowActivated(s, subWindowList[first])
                   ELSE s
         IN  [s1 EXCEPT !.last_click = click_pos]
    ELSE s

\* eventFilter recording and activating whether or not the layout is visible
\* and active.
eventFilter_of_any_window(s, event, active, super_result) ==
    IF event.type = "MouseButtonPress"
    THEN [on_click(s, event.globalPos) EXCEPT !.returned = super_result]
    ELSE [s EXCEPT !.returned = super_result]

\* active: self.isVisible() and self.isActiveWindow(); super_result: what
\* the superclass's eventFilter returns for the event.
eventFilter(s, event, active, super_result) ==
    IF event.type = "MouseButtonPress"
    THEN IF ~active
         THEN [s EXCEPT !.returned = super_result]
         ELSE [on_click(s, event.globalPos) EXCEPT !.returned = super_result]
    ELSE [s EXCEPT !.returned = super_result]

\* ---------------------------------------------------- slice controller

\* SliceController: the user moves the slider to index.
on_slider_change(s, index) ==
    LET s1 == update_index(s, index)
    IN  IF s1.synced[s1.active_cube] /\ ~s1.single_viewer_mode
        THEN [s1 EXCEPT !.slice_index = [v \in CubeIds |->
                            IF s1.synced[v] THEN index ELSE @[v]]]
        ELSE update_slice_index(s1, s1.active_cube, index)

\* CubevizImageViewer: the user ticks or unticks the viewer's synced checkbox.
on_synced_checkbox(s, v) == [s EXCEPT !.synced[v] = ~@]

\* ------------------------------------------------------------ actions

\* The loader calls add_data once, on the layout it has just created.
AddData ==
    /\ ~has_data
    /\ Commit(add_data(Cur))
    /\ last' = Op("add_data", None, 0 - 1, None, FALSE)

\* The sync button is enabled by add_data (_enable_option_buttons).
SyncClick ==
    /\ has_data
    /\ Commit(on_sync_click(Cur))
    /\ last' = Op("_on_sync_click", None, 0 - 1, None, FALSE)

\* The synced checkboxes are enabled by add_data.
SyncedCheckbox(v) ==
    /\ has_data
    /\ Commit(on_synced_checkbox(Cur, v))
    /\ last' = Op("synced_checkbox", v, 0 - 1, None, FALSE)

SliderChange(index) ==
    /\ has_data
    /\ slider_enabled
    /\ index # slider_index
    /\ Commit(on_slider_change(Cur, index))
    /\ last' = Op("slider_change", None, index, None, FALSE)

\* A pan or zoom of one cube viewer changes one of its limits.  The viewers
\* show an image to pan or zoom once data is loaded; until then their
\* limits are the ones they were created with.
SetLimit(v, attribute, value) ==
    /\ has_data
    /\ value # lim[attribute][v]
    /\ Commit(set_limit(Cur, v, attribute, value))
    /\ last' = Op(attribute, v, value, None, FALSE)

\* What a toggle round trip is compared on.
BeforeToggle ==
    [view |-> active_view, cube |-> active_cube, single |-> single_viewer_mode]

ToggleImageMode ==
    /\ Commit([toggle_image_mode(Cur) EXCEPT !.toggled =
                  IF Len(toggled) < 2
                  THEN Append(toggled, BeforeToggle)
                  ELSE <<toggled[2], BeforeToggle>>])
    /\ last' = Op("_toggle_image_mode", None, 0 - 1, None, FALSE)

ShowEvent ==
    /\ Commit(showEvent(Cur))
    /\ last' = Op("showEvent", None, 0 - 1, None, FALSE)

\* A pane the splitters have collapsed has an empty rect: no click falls in it.
Visible(v) ==
    \/ v = specviz
    \/ splitter = "single" /\ v = single_view
    \/ splitter = "split" /\ \E k \in 1..Len(split_views) : v = split_views[k]

\* The application delivers an event to the filter installed in __init__.
Filtered(event, active, super_result) ==
    [op |-> "eventFilter", view |-> None, index |-> 0 - 1, comp |-> None,
     force |-> FALSE, event |-> event, active |-> active,
     super_result |-> super_result]

FilterEvent(event, active, super_result) ==
    /\ Commit(eventFilter(Cur, event, active, super_result))
    /\ last' = Filtered(event, active, super_result)

\* eventFilter: a click in a viewer that is not the active sub-window emits
\* subWindowActivated(viewer).  The press is at a position other than the
\* last one, in a visible and active layout; the specifications that use
\* this action do not follow the click positions (FilterEvent does).
ClickActivate(v) ==
    /\ \E k \in 1..Len(subWindowList) : subWindowList[k] = v
    /\ Visible(v)
    /\ v # activeSubWindow
    /\ Commit(update_active_view(Cur, v))
    /\ last' = Op("subWindowActivated", v, 0 - 1, None, FALSE)

\* The user picks another entry of a viewer combo (enabled by add_data).
ComboChange(view_index, index) ==
    /\ has_data
    /\ index # combo[view_index]
    /\ Commit(setCurrentIndex(Cur, view_index, index))
    /\ last' = Op("combo", None, view_index, ComboData[index + 1], FALSE)

ChangeViewerComponent(view_index, component_id, force) ==
    /\ has_data
    /\ Commit(change_viewer_component(Cur, view_index, component_id, force))
    /\ last' = Op("change_viewer_component", None, view_index, component_id, force)

DisplayComponent(component_id) ==
    /\ has_data
    /\ Commit(display_component(Cur, component_id))
    /\ last' = Op("display_component", None, 0 - 1, component_id, FALSE)

StartSmoothingPreview(component_id) ==
    /\ has_data
    /\ Commit(start_smoothing_preview(Cur, component_id))
    /\ last' = Op("start_smoothing_preview", None, 0 - 1, component_id, FALSE)

\* The smoothing dialog ends the previews it has started.
EndSmoothingPreview ==
    /\ has_data
    /\ has_original
    /\ Commit(end_smoothing_preview(Cur))
    /\ last' = Op("end_smoothing_preview", None, 0 - 1, None, FALSE)

\* ----------------------------------------------------- specifications

Windows == CubeIds \cup {SpecvizId}
ComboIndexes == 0..(Len(ComboData) - 1)

\* Slices and syncing once data is loaded: the sync button, the synced
\* checkboxes, the slider, the image mode and the activation of sub-windows.
Next ==
    \/ AddData
    \/ SyncClick
    \/ \E v \in CubeIds : SyncedCheckbox(v)
    \/ \E i \in Slices : SliderChange(i)
    \/ has_data /\ ToggleImageMode
    \/ \E v \in Windows : has_data /\ ClickActivate(v)

Spec == Init /\ [][Next]_vars

\* Synced pan/zoom.
NextLimits ==
    \/ AddData
    \/ \E v \in CubeIds, a \in AttributeSet, x \in Limits : SetLimit(v, a, x)

SpecLimits == Init /\ [][NextLimits]_vars

\* display_component, in either image mode and with any active cube.
NextDisplay ==
    \/ AddData
    \/ has_data /\ ToggleImageMode
    \/ \E v \in Windows : has_data /\ ClickActivate(v)
    \/ \E i \in ViewIndexes, k \in ComboIndexes : ComboChange(i, k)
    \/ \E c \in Components : DisplayComponent(c)

SpecDisplay == Init /\ [][NextDisplay]_vars

\* The smoothing preview, with the user changing the combos in between.
NextPreview ==
    \/ AddData
    \/ \E i \in ViewIndexes, k \in ComboIndexes : ComboChange(i, k)
    \/ \E c \in Components : StartSmoothingPreview(c)
    \/ EndSmoothingPreview

SpecPreview == Init /\ [][NextPreview]_vars

\* change_viewer_component on every viewer, with every component (one of
\* them not in the combo), forced or not.
NextChange ==
    \/ AddData
    \/ \E i \in ViewIndexes, c \in Components \cup {Missing}, f \in BOOLEAN :
          ChangeViewerComponent(i, c, f)

SpecChange == Init /\ [][NextChange]_vars

\* Image mode, active cube and the enablement of the slice slider, from
\* construction on.
NextMode ==
    \/ AddData
    \/ ToggleImageMode
    \/ ShowEvent
    \/ \E v \in Windows : ClickActivate(v)
    \/ \E i \in ViewIndexes, k \in ComboIndexes : ComboChange(i, k)

SpecMode == Init /\ [][NextMode]_vars

\* The same events, with the image mode toggled only once data is loaded.
NextLoaded ==
    \/ AddData
    \/ has_data /\ ToggleImageMode
    \/ ShowEvent
    \/ \E v \in Windows : ClickActivate(v)
    \/ \E i \in ViewIndexes, k \in ComboIndexes : ComboChange(i, k)

SpecLoaded == Init /\ [][NextLoaded]_vars

\* The event filter: presses and other events at any position, delivered
\* while the layout is or is not the visible, active window, before and
\* after data is loaded and in either image mode.
NextClick ==
    \/ AddData
    \/ has_data /\ ToggleImageMode
    \/ \E type \in EventTypes, pos \in Positions, a, r \in BOOLEAN :
          FilterEvent(QEvent(type, pos), a, r)

SpecClick == Init /\ [][NextClick]_vars

\* ------------------------------------------------------------- claims

SplitIds == {split_views[k] : k \in 1..Len(split_views)}

\* The view_index of a cube viewer.
ViewIndexOf(v) == CHOOSE i \in ViewIndexes : cube_views[i + 1] = v

\* How often the combo-change handler ran in the last operation.
HandlerRuns(tr) == Cardinality({k \in 1..Len(tr) : tr[k].ev = "combo_change"})

\* C1: whenever _on_sync_click runs with data loaded (by the sync button or
\* at the end of _setup_syncing in add_data), afterwards all four cube
\* viewers are synced, all hold the slice index the active cube had, the
\* active cube's own slice index is unchanged, and the slice controller
\* shows that index.
C1_SyncClick ==
    [][last'.op \in {"_on_sync_click", "add_data"} =>
         LET cube == IF last'.op = "add_data" THEN split_views[1] ELSE active_cube
         IN  /\ \A v \in CubeIds : synced'[v]
             /\ \A v \in CubeIds : slice_index'[v] = slice_index[cube]
             /\ slider_index' = slice_index[cube]]_vars

\* The sync button was clicked in single image mode and every viewer,
\* synced again, holds the active cube's slice index, which is not the
\* initial one.
C1_Witness ==
    /\ last.op = "_on_sync_click"
    /\ single_viewer_mode
    /\ \A v \in CubeIds : synced[v] /\ slice_index[v] = slice_index[active_cube]
    /\ slice_index[active_cube] = MaxSlice
    /\ slider_index = MaxSlice

\* C2: once add_data has set up syncing, a change of x_min, x_max, y_min or
\* y_max on any split viewer leaves all three split viewers with the new
\* value of that attribute, and leaves every limit of the single viewer
\* unchanged.
C2_SyncedLimits ==
    [][\A a \in AttributeSet :
         (last'.op = a /\ last'.view \in SplitIds) =>
             /\ \A v \in SplitIds : lim'[a][v] = last'.index
             /\ \A b \in AttributeSet : lim'[b][single_view] = lim[b][single_view]]_vars

\* x_min was changed on the third split viewer and has reached the first,
\* while the single viewer keeps another value.
C2_Witness ==
    /\ last.op = "x_min"
    /\ last.view = split_views[3]
    /\ lim["x_min"][split_views[1]] = MaxLimit
    /\ lim["x_min"][single_view] # MaxLimit

\* C3: with data loaded, after display_component(component_id) the combo of
\* the viewer that is the active cube selects component_id.
C3_DisplayInActiveCube ==
    last.op = "display_component" =>
        CurrentData(Cur, ViewIndexOf(active_cube)) = last.comp

PreviewCalls(view_index, component_id) ==
    LET v == cube_views[view_index + 1]
    IN  (IF combo[view_index] = FindEntry(component_id)
         THEN <<Event("emit", v)>> ELSE <<>>)
        \o <<Event("combo_change", v)>>
        \o (IF preview[v] THEN <<Event("end_smoothing_preview", v)>> ELSE <<>>)
        \o <<Event("set_smoothing_preview", v)>>

\* C5: start_smoothing_preview(preview_function, component_id) handles the
\* single viewer and then the left split viewer; for each it sets the combo
\* to component_id, which runs the combo-change handler and ends a preview
\* already active there, and only then calls set_smoothing_preview.  On
\* return both combos select component_id, both viewers have an active
\* preview, and viewers 2 and 3 are untouched.
C5_StartPreview ==
    [][last'.op = "start_smoothing_preview" =>
         /\ trace' = PreviewCalls(0, last'.comp) \o PreviewCalls(1, last'.comp)
         /\ \A i \in {0, 1} : combo'[i] = FindEntry(last'.comp)
         /\ \A i \in {0, 1} : preview'[cube_views[i + 1]]
         /\ \A i \in ViewIndexes \ {0, 1} :
               LET v == cube_views[i + 1]
               IN  /\ combo'[i] = combo[i]
                   /\ preview'[v] = preview[v]
                   /\ has_2d_data'[v] = has_2d_data[v]
                   /\ slice_index'[v] = slice_index[v]
                   /\ synced'[v] = synced[v]]_vars

\* A preview was started while one was active: the handler ended the old
\* preview of the single viewer before the new one was set.
C5_Witness ==
    /\ last.op = "start_smoothing_preview"
    /\ \E k \in 1..Len(trace) :
          trace[k] = Event("end_smoothing_preview", cube_views[1])
    /\ preview[cube_views[1]] /\ preview[cube_views[2]]
    /\ CurrentData(Cur, 0) = last.comp /\ CurrentData(Cur, 1) = last.comp

\* C6: change_viewer_component(view_index, component_id, force): with force
\* the combo-change handler of that viewer runs exactly once, also when
\* component_id is already displayed; without force and with component_id
\* already displayed the handler does not run and the selection is
\* unchanged; whenever component_id is an entry of the combo the combo
\* selects it afterwards; no other viewer's combo changes.
C6_ChangeViewerComponent ==
    [][last'.op = "change_viewer_component" =>
         LET i == last'.index
             c == last'.comp
         IN  /\ last'.force =>
                   /\ HandlerRuns(trace') = 1
                   /\ \A k \in 1..Len(trace') :
                         trace'[k].ev = "combo_change" =>
                             trace'[k].view = cube_views[i + 1]
             /\ (~last'.force /\ combo[i] = FindEntry(c)) =>
                   HandlerRuns(trace') = 0 /\ combo'[i] = combo[i]
             /\ c \in Components => combo'[i] = FindEntry(c)
             /\ \A j \in ViewIndexes \ {i} : combo'[j] = combo[j]]_vars

\* A forced change to the component already displayed: the signal was
\* emitted by hand and the handler ran once.
C6_Witness ==
    /\ last.op = "change_viewer_component"
    /\ last.force
    /\ last.comp \in Components
    /\ Len(trace) > 0 /\ trace[1].ev = "emit"
    /\ HandlerRuns(trace) = 1
    /\ CurrentData(Cur, last.index) = last.comp

ImageViewers == {k \in 1..Len(subWindowList) :
                    WidgetClass(subWindowList[k]) = "CubevizImageViewer"}
SpectrumViewers == {k \in 1..Len(subWindowList) :
                       WidgetClass(subWindowList[k]) = "SpecVizViewer"}

ModeConsistent ==
    /\ last.op = "__init__" => ~single_viewer_mode
    /\ single_viewer_mode <=>
          (button_text = "Split Image Viewer" /\ frame_index = 1)
    /\ ~single_viewer_mode <=>
          (button_text = "Single Image Viewer" /\ frame_index = 0)

\* C8: the layout starts in split mode; every call of _toggle_image_mode
\* flips _single_viewer_mode; in every state _single_viewer_mode is True
\* exactly when the button reads 'Split Image Viewer' and the control frame
\* shows index 1, and False exactly when the button reads 'Single Image
\* Viewer' and the frame shows index 0.
C8_ImageMode ==
    [][/\ ModeConsistent
       /\ ModeConsistent'
       /\ last'.op = "_toggle_image_mode" =>
             single_viewer_mode' = ~single_viewer_mode]_vars

\* The layout was toggled back to split mode after having been in single
\* mode with data loaded.
C8_Witness ==
    /\ last.op = "_toggle_image_mode"
    /\ has_data
    /\ ~single_viewer_mode
    /\ button_text = "Single Image Viewer"
    /\ frame_index = 0
    /\ last_active_view = single_view

\* C9: whenever data is loaded the active cube is the single viewer in
\* single-viewer mode and one of the split viewers in split mode, and it is
\* never None when _toggle_image_mode finishes.
C9_ModeActiveCube ==
    has_data =>
        /\ single_viewer_mode => active_cube = single_view
        /\ ~single_viewer_mode => active_cube \in SplitIds
        /\ last.op = "_toggle_image_mode" => active_cube # None

\* C10: with data loaded, after a sub-window activation, a viewer combo
\* change or an image-mode toggle the slice controller is enabled exactly
\* when the active cube does not show 2-D data; a combo change on a viewer
\* that is not the active cube leaves the enabled state unchanged.
C10_SliderEnabled ==
    [][(has_data' /\ last'.op \in {"subWindowActivated", "combo",
                                   "_toggle_image_mode"}) =>
         /\ slider_enabled' = ~has_2d_data'[active_cube']
         /\ (last'.op = "combo" /\ cube_views[last'.index + 1] # active_cube) =>
               slider_enabled' = slider_enabled]_vars

\* C11: after _toggle_image_mode completes with data loaded, the slice
\* controller's index equals the slice index of the cube viewer that is the
\* active cube at that moment: the index is updated after the mode switch
\* and after the activation of the new active view has been handled.
C11_IndexOfActiveCube ==
    [][(has_data /\ last'.op = "_toggle_image_mode") =>
         /\ active_cube' \in CubeIds
         /\ slider_index' = slice_index'[active_cube']]_vars

\* A toggle to split mode re-activated the spectrum viewer, so the
\* activation did not touch the slice controller, and the active cube is a
\* split viewer on another slice than the single viewer.
C11_Witness ==
    /\ has_data
    /\ last.op = "_toggle_image_mode"
    /\ ~single_viewer_mode
    /\ active_view = specviz
    /\ active_cube \in SplitIds
    /\ slice_index[active_cube] # slice_index[single_view]
    /\ slider_index = slice_index[active_cube]

\* C12: when _toggle_image_mode switches from single to split mode, a split
\* viewer receives the single viewer's slice index if and only if both the
\* single viewer and that split viewer are synced; the other split viewers,
\* and all of them when the single viewer is not synced, keep their slice
\* index, as does the single viewer; switching from split to single mode
\* changes no viewer's slice index.
C12_SliceHandOver ==
    [][last'.op = "_toggle_image_mode" =>
         /\ single_viewer_mode =>
               /\ \A v \in SplitIds :
                     slice_index'[v] =
                        IF synced[single_view] /\ synced[v]
                        THEN slice_index[single_view]
                        ELSE slice_index[v]
               /\ slice_index'[single_view] = slice_index[single_view]
         /\ ~single_viewer_mode => slice_index' = slice_index]_vars

\* A toggle to split mode gave the single viewer's slice to a synced split
\* viewer and left an unsynced one on another slice.
C12_Witness ==
    /\ has_data
    /\ last.op = "_toggle_image_mode"
    /\ ~single_viewer_mode
    /\ synced[single_view]
    /\ \E v, w \in SplitIds :
          /\ synced[v]
          /\ slice_index[v] = slice_index[single_view]
          /\ ~synced[w]
          /\ slice_index[w] # slice_index[single_view]

LayoutState ==
    <<cube_views, specviz, has_data, single_viewer_mode, button_text,
      frame_index, splitter, active_view, active_cube, last_active_view,
      active_split_cube, slice_index, synced, has_2d_data, preview, combo,
      slider_index, slider_enabled, has_original, original_components,
      sync, lim, last_click>>

\* How often subWindowActivated was emitted in the last operation.
Activations(tr) ==
    Cardinality({k \in 1..Len(tr) : tr[k].ev = "subWindowActivated"})

\* C14: for a mouse press seen by eventFilter the activation signal is
\* emitted at most once, and only when the layout is visible and the active
\* window, the click position differs from the last recorded one and the
\* viewer containing the click is not already the active sub-window; a
\* press at the last recorded position, or while the layout is not visible
\* and active, changes no layout state (the last click position included);
\* the filter always returns the superclass's result.
C14_ClickActivation ==
    [][last'.op = "eventFilter" =>
         /\ returned' = last'.super_result
         /\ last'.event.type = "MouseButtonPress" =>
               LET click_pos == last'.event.globalPos
               IN  /\ Activations(trace') <= 1
                   /\ Activations(trace') = 1 =>
                         /\ last'.active
                         /\ click_pos # last_click
                         /\ \E k \in 1..Len(subWindowList) :
                               /\ Contains(Cur, subWindowList[k], click_pos)
                               /\ subWindowList[k] # activeSubWindow
                               /\ trace' = <<Event("subWindowActivated",
                                                   subWindowList[k])>>
                   /\ (click_pos = last_click \/ ~last'.active) =>
                         UNCHANGED LayoutState]_vars

\* A press in a split viewer that was not the active sub-window, at another
\* position than the last recorded one, activated that viewer.
C14_Witness ==
    /\ has_data
    /\ last.op = "eventFilter"
    /\ last.event.type = "MouseButtonPress"
    /\ last.active
    /\ Activations(trace) = 1
    /\ trace[1].view = split_views[2]
    /\ active_view = split_views[2]
    /\ last_click = last.event.globalPos
    /\ returned = last.super_result

====
